---------------------------- MODULE Spec2Model ----------------------------
(***************************************************************************)
(* Model of backend/main.py of maigret-ui: the session store, the job      *)
(* runner perform_maigret_search with its line parser, the connection      *)
(* manager and the status / result queries.                                *)
(*                                                                         *)
(* Text is modelled as tuples of one-character strings; the regular        *)
(* expressions of the parser are matched by a backtracking matcher with    *)
(* the semantics of Python's re (leftmost match, greedy quantifiers).      *)
(* Time is a clock counted in ticks of 1/TicksPerSecond seconds.           *)
(***************************************************************************)
EXTENDS Integers, Sequences, FiniteSets, TLC

\* ------------------------------------------------------------------ bounds
\* Resolution of the clock: ticks per second.
TicksPerSecond == 2
\* Number of clock advances in one behaviour.
MaxTicks == 2
\* Number of output lines read from external processes in one behaviour.
MaxLines == 2
\* Number of observer connects in one behaviour.
MaxConnects == 2
\* Number of failed writes of the snapshot file in one behaviour.
MaxSaveFailures == 1
\* Number of sessions created in one behaviour.
MaxSessions == 2

\* ------------------------------------------------------------- text layer
Min(a, b) == IF a < b THEN a ELSE b
Max(a, b) == IF a > b THEN a ELSE b

\* A Python str as a tuple of characters.
Chars(str) == [i \in 1..Len(str) |-> SubSeq(str, i, i)]

DIGITS == {"0", "1", "2", "3", "4", "5", "6", "7", "8", "9"}
\* \s of the re module (the ASCII blanks that can occur inside one line)
WHITESPACE == {" ", "\t"}

DigitVal(c) ==
    CASE c = "0" -> 0 [] c = "1" -> 1 [] c = "2" -> 2 [] c = "3" -> 3
      [] c = "4" -> 4 [] c = "5" -> 5 [] c = "6" -> 6 [] c = "7" -> 7
      [] c = "8" -> 8 [] c = "9" -> 9

\* int(s) for a string of decimal digits
RECURSIVE int(_)
int(s) == IF Len(s) = 0 THEN 0
          ELSE 10 * int(SubSeq(s, 1, Len(s) - 1)) + DigitVal(s[Len(s)])

UPPER == Chars("ABCDEFGHIJKLMNOPQRSTUVWXYZ")
LOWER == Chars("abcdefghijklmnopqrstuvwxyz")
LowerChar(c) == IF \E i \in 1..26 : UPPER[i] = c
                THEN LOWER[CHOOSE i \in 1..26 : UPPER[i] = c]
                ELSE c
\* str.lower()
lower(s) == [i \in 1..Len(s) |-> LowerChar(s[i])]

\* str.strip(): drop leading and trailing whitespace
RECURSIVE lstrip(_)
lstrip(s) == IF Len(s) > 0 /\ s[1] \in WHITESPACE THEN lstrip(Tail(s)) ELSE s
RECURSIVE rstrip(_)
rstrip(s) == IF Len(s) > 0 /\ s[Len(s)] \in WHITESPACE
             THEN rstrip(SubSeq(s, 1, Len(s) - 1)) ELSE s
strip(s) == rstrip(lstrip(s))

\* sub in s  (substring test of Python's `in` on str)
Contains(s, sub) ==
    \E i \in 1..(Len(s) - Len(sub) + 1) : SubSeq(s, i, i + Len(sub) - 1) = sub

\* s.count(c) for a one-character c
count(s, c) == Cardinality({i \in 1..Len(s) : s[i] = c})

\* ------------------------------------------------------ regular expressions
\* A pattern is a tuple of nodes; a node matches characters of the class cs
\* (negated when neg), q is its quantifier ("1", "+", "*", "?"), and cap
\* tells whether the node is a capture group.
Node(cs, neg, q, cap) == [cs |-> cs, neg |-> neg, q |-> q, cap |-> cap]
Lit(str) == [i \in 1..Len(str) |-> Node({SubSeq(str, i, i)}, FALSE, "1", FALSE)]
SPACES1 == <<Node(WHITESPACE, FALSE, "+", FALSE)>>
SPACES0 == <<Node(WHITESPACE, FALSE, "*", FALSE)>>
NUM == <<Node(DIGITS, FALSE, "+", TRUE)>>
BARCHARS == {"█", "░"}

NodeOk(n, c) == (c \in n.cs) # n.neg

\* number of consecutive characters from position i that the node accepts
RECURSIVE RunLen(_, _, _)
RunLen(n, s, i) ==
    IF i <= Len(s) /\ NodeOk(n, s[i]) THEN 1 + RunLen(n, s, i + 1) ELSE 0

MinCount(n) == IF n.q \in {"1", "+"} THEN 1 ELSE 0
MaxCount(n, run) == IF n.q \in {"1", "?"} THEN Min(1, run) ELSE run

NoMatch == [ok |-> FALSE, groups |-> <<>>]

\* match p[k..] at position i of s; quantifiers are greedy and backtrack
RECURSIVE MatchHere(_, _, _, _, _)
RECURSIVE TryCount(_, _, _, _, _, _)
MatchHere(p, k, s, i, g) ==
    IF k > Len(p) THEN [ok |-> TRUE, groups |-> g]
    ELSE LET run == RunLen(p[k], s, i)
         IN  IF run < MinCount(p[k]) THEN NoMatch
             ELSE TryCount(p, k, s, i, g, MaxCount(p[k], run))
TryCount(p, k, s, i, g, c) ==
    LET g2 == IF p[k].cap THEN Append(g, SubSeq(s, i, i + c - 1)) ELSE g
        r  == MatchHere(p, k + 1, s, i + c, g2)
    IN  IF r.ok THEN r
        ELSE IF c > MinCount(p[k]) THEN TryCount(p, k, s, i, g, c - 1)
        ELSE NoMatch

RECURSIVE SearchFrom(_, _, _)
SearchFrom(p, s, i) ==
    IF i > Len(s) + 1 THEN NoMatch
    ELSE LET r == MatchHere(p, 1, s, i, <<>>)
         IN  IF r.ok THEN r ELSE SearchFrom(p, s, i + 1)

\* re.search(p, s): the leftmost match, or NoMatch
re_search(p, s) == SearchFrom(p, s, 1)
\* re.search(p, s, re.IGNORECASE) for a pattern written in lower case
re_search_ic(p, s) == SearchFrom(p, lower(s), 1)

\* the str of a tuple of characters
RECURSIVE Str(_)
Str(t) == IF Len(t) = 0 THEN "" ELSE t[1] \o Str(Tail(t))

\* ------------------------------------------------- patterns of the parser
\* r'(\d+)\s+sites?' (re.IGNORECASE)
sites_pattern == NUM \o SPACES1 \o Lit("site") \o <<Node({"s"}, FALSE, "?", FALSE)>>

progress_patterns == <<
    \* r'Searching\s+\|[█░]+\|\s+(\d+)/(\d+)'
    Lit("Searching") \o SPACES1 \o Lit("|") \o <<Node(BARCHARS, FALSE, "+", FALSE)>>
        \o Lit("|") \o SPACES1 \o NUM \o Lit("/") \o NUM,
    \* r'(\d+)/(\d+)\s+\[[█░]+\]'
    NUM \o Lit("/") \o NUM \o SPACES1 \o Lit("[")
        \o <<Node(BARCHARS, FALSE, "+", FALSE)>> \o Lit("]"),
    \* r'(\d+)/(\d+)\s+\[[= ]+\]'
    NUM \o Lit("/") \o NUM \o SPACES1 \o Lit("[")
        \o <<Node({"=", " "}, FALSE, "+", FALSE)>> \o Lit("]"),
    \* r'(\d+)/(\d+)\s+\[[# ]+\]'
    NUM \o Lit("/") \o NUM \o SPACES1 \o Lit("[")
        \o <<Node({"#", " "}, FALSE, "+", FALSE)>> \o Lit("]"),
    \* r'Progress:\s+(\d+)/(\d+)'
    Lit("Progress:") \o SPACES1 \o NUM \o Lit("/") \o NUM,
    \* r'(\d+)/(\d+)\s+sites?'
    NUM \o Lit("/") \o NUM \o SPACES1 \o Lit("site") \o <<Node({"s"}, FALSE, "?", FALSE)>>,
    \* r'Searching\s+\|[█░]+\|\s*(\d+)/(\d+)'
    Lit("Searching") \o SPACES1 \o Lit("|") \o <<Node(BARCHARS, FALSE, "+", FALSE)>>
        \o Lit("|") \o SPACES0 \o NUM \o Lit("/") \o NUM,
    \* r'(\d+)/(\d+)\s+\[(\d+)%\]'
    NUM \o Lit("/") \o NUM \o SPACES1 \o Lit("[") \o NUM \o Lit("%]") >>

\* r'Searching\s+\|([█░]+)\|'
bar_pattern == Lit("Searching") \o SPACES1 \o Lit("|")
                   \o <<Node(BARCHARS, FALSE, "+", TRUE)>> \o Lit("|")

NAME == <<Node({"."} \cup WHITESPACE, TRUE, "+", TRUE)>>
BRACKETED == Lit("[") \o <<Node({"]"}, TRUE, "+", TRUE)>> \o Lit("]")
site_check_patterns == <<
    Lit("Checking") \o SPACES1 \o NAME,       \* r'Checking\s+([^.\s]+)'
    Lit("Searching") \o SPACES1 \o NAME,      \* r'Searching\s+([^.\s]+)'
    Lit("Testing") \o SPACES1 \o NAME,        \* r'Testing\s+([^.\s]+)'
    BRACKETED \o SPACES1 \o Lit("Checking"),  \* r'\[([^\]]+)\]\s+Checking'
    BRACKETED \o SPACES1 \o Lit("Searching")  \* r'\[([^\]]+)\]\s+Searching'
    >>

\* the character U+2713 (check mark), which the lexer of TLA+ does not accept
\* inside a string
CHECKMARK == "<U+2713>"

\* r'Found!', r'Claimed', r'<U+2713>', r'\[FOUND\]', r'\[CLAIMED\]', r'Success',
\* all searched with re.IGNORECASE
result_patterns == << Lit("found!"), Lit("claimed"),
                      <<Node({CHECKMARK}, FALSE, "1", FALSE)>>, Lit("[found]"),
                      Lit("[claimed]"), Lit("success") >>

\* the match of the first pattern of ps (from index k) that matches s
RECURSIVE FirstMatch(_, _, _)
FirstMatch(ps, k, s) ==
    IF k > Len(ps) THEN NoMatch
    ELSE LET r == re_search(ps[k], s)
         IN  IF r.ok THEN r ELSE FirstMatch(ps, k + 1, s)

\* --------------------------------------------------------------- universe
\* session identifiers that uuid.uuid4() can return
Sessions == {"s1", "s2", "s3"}
\* uuid4() returns an identifier that no session has; the identifiers are
\* interchangeable, so the model hands them out in this order
SessionOrder == <<"s1", "s2", "s3">>
\* websocket objects (one per client connection)
Observers == {"A", "B", "C"}
\* the websockets are interchangeable: they connect in this order
ObserverOrder == <<"A", "B", "C">>
\* the requests: request.usernames and request.options.timeout (seconds)
Requests == { [usernames |-> <<"alice">>, timeout |-> 30],
              [usernames |-> <<"alice", "bob">>, timeout |-> 70] }
\* amounts by which the clock advances (in ticks)
TickSteps == {4 * TicksPerSecond, 121 * TicksPerSecond}
\* raw output lines of the external process (without the newline)
OutputLines == { "Searching 100 sites",
                 "1/100 sites",
                 "500/500 [100%]",
                 "Searching |███░|",
                 "Checking github",
                 "[+] GitHub: Found!" }
None == "None"
\* a counter line whose first number exceeds its second
OverrunLine == "2/1 sites"
\* a counter line with a percentage above one hundred
OverflowLine == "1/1 [250%]"
\* a line with a bar and a counter
BarCounterLine == "Searching |██░░| 1/100"
\* the output of a process that reports a bar, a site and a hit
ExampleLines == << "Searching | ████░░░░ | 40/100", "Checking example.com", "[FOUND]" >>
\* a request that names no username
EmptyRequest == [usernames |-> <<>>, timeout |-> 30]
\* What the environment may do in one behaviour: the sessions it starts and
\* the requests it sends, the clock advances, the output lines of each
\* process (how many, and which: any of chunks, or the lines of script in
\* their order), the websocket connects and the failed writes of the
\* snapshot file.  A behaviour starts with one of these budgets.
Budgets ==
    { \* one job, its output and the clock
      [ sessions |-> 1, requests |-> Requests, ticks |-> MaxTicks,
        lines |-> [s \in Sessions |-> MaxLines], chunks |-> OutputLines, script |-> <<>>,
        connects |-> 0, save_failures |-> 0 ],
      \* one job and its observers
      [ sessions |-> 1, requests |-> Requests, ticks |-> 0,
        lines |-> [s \in Sessions |-> 1], chunks |-> OutputLines, script |-> <<>>,
        connects |-> MaxConnects, save_failures |-> 0 ],
      \* one job of any request, any line and a failing disk
      [ sessions |-> 1, requests |-> Requests \cup {EmptyRequest}, ticks |-> 0,
        lines |-> [s \in Sessions |-> 1], chunks |-> OutputLines \cup {OverrunLine, OverflowLine, BarCounterLine},
        script |-> <<>>, connects |-> 0, save_failures |-> MaxSaveFailures ],
      \* one job whose process writes the example output
      [ sessions |-> 1, requests |-> {[usernames |-> <<"alice">>, timeout |-> 30]},
        ticks |-> 0, lines |-> [s \in Sessions |-> Len(ExampleLines)], chunks |-> {},
        script |-> ExampleLines, connects |-> 0, save_failures |-> 0 ],
      \* concurrent jobs of the same request
      [ sessions |-> MaxSessions, requests |-> {[usernames |-> <<"alice">>, timeout |-> 30]},
        ticks |-> 0, lines |-> [s \in Sessions |-> 1], chunks |-> {"Searching 100 sites"},
        script |-> <<>>, connects |-> 1, save_failures |-> 0 ] }

\* what the parser sees in one output line: line = output.strip() and the
\* results of the searches of main.py:446-554 on it
Scan(output) ==
    LET line == strip(Chars(output)) IN
    [ line          |-> line,
      announces     |-> /\ Contains(lower(line), Chars("sites"))
                        /\ \/ Contains(lower(line), Chars("searching"))
                           \/ Contains(lower(line), Chars("found")),
      sites_match   |-> re_search_ic(sites_pattern, line),
      progress_match |-> FirstMatch(progress_patterns, 1, line),
      has_bar       |-> Contains(line, Chars("Searching |")) /\ Contains(line, Chars("|")),
      bar_match     |-> re_search(bar_pattern, line),
      site_match    |-> FirstMatch(site_check_patterns, 1, line),
      result_match  |-> \E k \in 1..Len(result_patterns) :
                            re_search_ic(result_patterns[k], line).ok ]

VARIABLES
    search_sessions,      \* main.py:95   session id -> record (a dict)
    session_locks,        \* main.py:96   ids that have a lock object
    sessions_file,        \* main.py:99   content of search_sessions.json
    last_saved,           \* history: the store as of the last write of the file
                          \* that succeeded
    last_write,           \* history: per session and field, the value of the last
                          \* completed write that named the field
    active_connections,   \* main.py:34   session id -> websocket
    ws,                   \* per websocket: state of its endpoint and its session id
    received,             \* per websocket: the last message sent to it
    published,            \* per session: the last message handed to send_progress_update
    loop_owner,           \* the coroutine that holds the event loop thread
    pc,                   \* per session: position of perform_maigret_search
    request,              \* per session: the SearchRequest of the job
    proc,                 \* per session: state of the external process
    total_sites, sites_checked, results_found, current_site,
    last_progress_update, start_time, timeout_seconds,   \* locals, main.py:364-373
    output,               \* per session: the line returned by readline
    scan,                 \* per session: the results of the searches on that line
    return_code,          \* per session: exit code of the process
    reports,              \* per session: the reports directory as the runner read it
    now,                  \* time.time() in ticks
    response,             \* what the last query returned
    budget                \* what the environment may still do: clock advances,
                          \* output lines, websocket connects, failed file writes

store_vars == <<search_sessions, session_locks, sessions_file, last_saved, last_write>>
notifier_vars == <<active_connections, ws, received, published>>
local_vars == <<total_sites, sites_checked, results_found, current_site,
                last_progress_update, start_time, timeout_seconds, output, scan,
                return_code, reports>>
vars == <<store_vars, notifier_vars, loop_owner, pc, request, proc, local_vars,
          now, response, budget>>

\* ------------------------------------------------------------ session store
\* dict.get(key, default)
Get(d, key, default) == IF key \in DOMAIN d THEN d[key] ELSE default

\* {}
EmptyDict == [k \in {} |-> 0]

\* the record is replaced by the updates instead of being merged with them
DictReplace(d, updates) == updates

\* d.update(updates): the keys of updates are overwritten or added
DictUpdate(d, updates) ==
    [k \in DOMAIN d \cup DOMAIN updates |->
        IF k \in DOMAIN updates THEN updates[k] ELSE d[k]]

\* outcomes of writing the snapshot file that the environment may still choose
SaveOutcomes == IF budget.save_failures > 0 THEN {TRUE, FALSE} ELSE {TRUE}

\* a file that open(SESSIONS_FILE, 'w') has truncated and that json.dump has
\* not written to the end: it does not parse
Truncated == [k \in {"<truncated>"} |-> "{"]

\* load_sessions(): the records of the file; {} when the file does not parse
load_sessions(file) == IF file = Truncated THEN EmptyDict ELSE file

\* what a write of the file that fails leaves behind: open() raises and the
\* file is as before, or json.dump raises after open() has truncated it
FailedWrites(file) == {file, Truncated}

\* save_sessions(): the file becomes the store unless the write fails
save_sessions(store, ok) ==
    /\ IF ok THEN sessions_file' = store
       ELSE sessions_file' \in FailedWrites(sessions_file)
    /\ last_saved' = IF ok THEN store ELSE last_saved
    /\ budget' = [budget EXCEPT !.save_failures = IF ok THEN @ ELSE @ - 1]

\* the records of all sessions are one shared dict: a write reaches every record
update_shared_session_data(session_id, updates, ok) ==
    /\ session_locks' = session_locks \cup {session_id}
    /\ IF session_id \in DOMAIN search_sessions
       THEN /\ search_sessions' =
                  [k \in DOMAIN search_sessions |-> DictUpdate(search_sessions[k], updates)]
            /\ save_sessions(search_sessions', ok)
            /\ last_write' = [last_write EXCEPT ![session_id] = updates @@ @]
       ELSE /\ UNCHANGED <<search_sessions, sessions_file, last_saved, last_write, budget>>

\* the record is updated only when the snapshot could be written
update_session_data_if_saved(session_id, updates, ok) ==
    /\ session_locks' = session_locks \cup {session_id}
    /\ IF session_id \in DOMAIN search_sessions
       THEN /\ search_sessions' =
                  IF ok THEN [search_sessions EXCEPT ![session_id] = DictUpdate(@, updates)]
                  ELSE search_sessions
            /\ save_sessions(search_sessions', ok)
            /\ last_write' = [last_write EXCEPT ![session_id] = updates @@ @]
       ELSE /\ UNCHANGED <<search_sessions, sessions_file, last_saved, last_write, budget>>

\* update_session_data(session_id, updates)
update_session_data(session_id, updates, ok) ==
    /\ session_locks' = session_locks \cup {session_id}
    /\ IF session_id \in DOMAIN search_sessions
       THEN /\ search_sessions' =
                  [search_sessions EXCEPT ![session_id] = DictUpdate(@, updates)]
            /\ save_sessions(search_sessions', ok)
            /\ last_write' = [last_write EXCEPT ![session_id] = updates @@ @]
       ELSE /\ UNCHANGED <<search_sessions, sessions_file, last_saved, last_write, budget>>

\* get_session_data(session_id): a copy of the record, {} when absent
get_session_data(session_id) ==
    IF session_id \in DOMAIN search_sessions THEN search_sessions[session_id]
    ELSE EmptyDict

\* ------------------------------------------------------------------ events
NoMessage == [type |-> "none"]
NoResponse == [op |-> "none"]
NoRequest == [usernames |-> <<>>, timeout |-> 0]

\* ConnectionManager.disconnect(session_id)
disconnect(session_id) ==
    [k \in DOMAIN active_connections \ {session_id} |-> active_connections[k]]

\* a websocket whose send failed stays registered
send_progress_update_keeps(session_id, data, sent) ==
    /\ published' = [published EXCEPT ![session_id] = data]
    /\ IF session_id \in DOMAIN active_connections
       THEN LET websocket == active_connections[session_id] IN
            IF sent
            THEN /\ received' = [received EXCEPT ![websocket] = data]
                 /\ UNCHANGED <<active_connections, ws>>
            ELSE /\ ws' = [ws EXCEPT ![websocket].state = "broken"]
                 /\ UNCHANGED <<active_connections, received>>
       ELSE UNCHANGED <<active_connections, ws, received>>

\* ConnectionManager.send_progress_update(session_id, data); sent tells
\* whether send_text succeeds when a websocket is registered
send_progress_update(session_id, data, sent) ==
    /\ published' = [published EXCEPT ![session_id] = data]
    /\ IF session_id \in DOMAIN active_connections
       THEN LET websocket == active_connections[session_id] IN
            IF sent
            THEN /\ received' = [received EXCEPT ![websocket] = data]
                 /\ UNCHANGED <<active_connections, ws>>
            ELSE /\ active_connections' = disconnect(session_id)
                 /\ ws' = [ws EXCEPT ![websocket].state = "broken"]
                 /\ UNCHANGED received
       ELSE UNCHANGED <<active_connections, ws, received>>

\* The event loop runs one coroutine at a time; a coroutine keeps the thread
\* until it awaits something that suspends it.  The job runner of session s
\* may take a step when it holds the thread or when the thread is free and
\* its task is ready.
LoopFree == loop_owner = None

\* the identifiers a client asks about: those of the sessions and one that no
\* session has
KnownOrNext == {SessionOrder[i] : i \in 1..Min(Len(SessionOrder),
                                              Cardinality(DOMAIN search_sessions) + 1)}
Runs(s, at) == pc[s] = at /\ loop_owner \in {s, None}

\* `await send_text` suspends the runner only when a websocket is registered
Yields(s) == IF s \in DOMAIN active_connections THEN {TRUE, FALSE} ELSE {FALSE}
SendOutcomes(s) == IF s \in DOMAIN active_connections THEN {TRUE, FALSE} ELSE {TRUE}

Init ==
    /\ search_sessions = EmptyDict
    /\ last_write = EmptyDict
    /\ session_locks = {}
    /\ sessions_file = EmptyDict
    /\ last_saved = EmptyDict
    /\ active_connections = EmptyDict
    /\ ws = [o \in Observers |-> [state |-> "idle", session_id |-> None]]
    /\ received = [o \in Observers |-> NoMessage]
    /\ published = [s \in Sessions |-> NoMessage]
    /\ loop_owner = None
    /\ pc = [s \in Sessions |-> "idle"]
    /\ request = [s \in Sessions |-> NoRequest]
    /\ proc = [s \in Sessions |-> "none"]
    /\ total_sites = [s \in Sessions |-> 0]
    /\ sites_checked = [s \in Sessions |-> 0]
    /\ results_found = [s \in Sessions |-> 0]
    /\ current_site = [s \in Sessions |-> ""]
    /\ last_progress_update = [s \in Sessions |-> 0]
    /\ start_time = [s \in Sessions |-> 0]
    /\ timeout_seconds = [s \in Sessions |-> 0]
    /\ output = [s \in Sessions |-> ""]
    /\ scan = [s \in Sessions |-> Scan("")]
    /\ return_code = [s \in Sessions |-> 0]
    /\ reports = [s \in Sessions |-> EmptyDict]
    /\ now = 1
    /\ response = NoResponse
    /\ budget \in Budgets

\* ----------------------------------------------------- supervisor, queries
\* POST /api/search
start_search(session_id, usernames, timeout, ok) ==
    /\ LoopFree
    /\ budget.sessions > 0
    /\ session_id = SessionOrder[Cardinality(DOMAIN search_sessions) + 1]
    /\ LET session == [ id |-> session_id,
                        usernames |-> usernames,
                        options |-> [timeout |-> timeout],
                        status |-> "pending",
                        progress |-> 0,
                        results |-> <<>>,
                        createdAt |-> now ]
       IN  /\ search_sessions' = search_sessions @@ (session_id :> session)
           /\ last_write' = last_write @@ (session_id :> session)
           /\ IF ok THEN sessions_file' = search_sessions'
              ELSE sessions_file' \in FailedWrites(sessions_file)
           /\ last_saved' = IF ok THEN search_sessions' ELSE last_saved
           /\ budget' = [budget EXCEPT !.sessions = @ - 1,
                                        !.save_failures = IF ok THEN @ ELSE @ - 1]
           /\ response' = [op |-> "start_search", session_id |-> session_id,
                           code |-> 200, data |-> session]
    /\ request' = [request EXCEPT ![session_id] =
                       [usernames |-> usernames, timeout |-> timeout]]
    /\ pc' = [pc EXCEPT ![session_id] = "start"]
    /\ UNCHANGED <<session_locks, notifier_vars, loop_owner, proc, local_vars, now>>

\* GET /api/search/{session_id}
get_search_status(session_id) ==
    /\ LoopFree
    /\ IF session_id \notin DOMAIN search_sessions
       THEN /\ response' = [op |-> "get_search_status", session_id |-> session_id,
                            code |-> 404, data |-> "Search session not found"]
            /\ UNCHANGED session_locks
       ELSE LET session == get_session_data(session_id) IN
            /\ session_locks' = session_locks \cup {session_id}
            /\ response' =
                 [op |-> "get_search_status", session_id |-> session_id,
                  code |-> 200,
                  data |-> [ sessionId |-> session_id,
                             status |-> Get(session, "status", "pending"),
                             progress |-> Get(session, "progress", 0),
                             currentSite |-> Get(session, "currentSite", None),
                             sitesChecked |-> Get(session, "sitesChecked", 0),
                             totalSites |-> Get(session, "totalSites", 0),
                             resultsFound |-> Get(session, "resultsFound", 0) ]]
    /\ UNCHANGED <<search_sessions, sessions_file, last_saved, last_write, notifier_vars,
                   loop_owner, pc, request, proc, local_vars, now, budget>>

\* the results are returned without the check of the status
get_search_results_unchecked(session_id) ==
    /\ LoopFree
    /\ response' =
         IF session_id \notin DOMAIN search_sessions
         THEN [op |-> "get_search_results", session_id |-> session_id,
               code |-> 404, data |-> "Search session not found"]
         ELSE [op |-> "get_search_results", session_id |-> session_id,
               code |-> 200, data |-> search_sessions[session_id]]
    /\ UNCHANGED <<store_vars, notifier_vars, loop_owner, pc, request, proc,
                   local_vars, now, budget>>

\* GET /api/results/{session_id}
get_search_results(session_id) ==
    /\ LoopFree
    /\ response' =
         IF session_id \notin DOMAIN search_sessions
         THEN [op |-> "get_search_results", session_id |-> session_id,
               code |-> 404, data |-> "Search session not found"]
         ELSE IF search_sessions[session_id]["status"] # "completed"
         THEN [op |-> "get_search_results", session_id |-> session_id,
               code |-> 400, data |-> "Search not completed"]
         ELSE [op |-> "get_search_results", session_id |-> session_id,
               code |-> 200, data |-> search_sessions[session_id]]
    /\ UNCHANGED <<store_vars, notifier_vars, loop_owner, pc, request, proc,
                   local_vars, now, budget>>

\* /ws/{session_id}: the endpoint accepts and registers the websocket
websocket_connect(websocket, session_id) ==
    /\ LoopFree
    /\ budget.connects > 0
    /\ session_id \in DOMAIN search_sessions
    /\ ws[websocket].state = "idle"
    /\ \A i \in 1..Len(ObserverOrder) :
           ObserverOrder[i] = websocket =>
               \A j \in 1..(i - 1) : ws[ObserverOrder[j]].state # "idle"
    /\ ws' = [ws EXCEPT ![websocket] = [state |-> "open", session_id |-> session_id]]
    /\ active_connections' =
         [k \in DOMAIN active_connections \cup {session_id} |->
             IF k = session_id THEN websocket ELSE active_connections[k]]
    /\ budget' = [budget EXCEPT !.connects = @ - 1]
    /\ response' = NoResponse
    /\ UNCHANGED <<store_vars, received, published, loop_owner, pc, request, proc,
                   local_vars, now>>

\* /ws/{session_id}: receive_text raises (the client went away or the
\* connection broke) and the endpoint calls manager.disconnect(session_id)
websocket_disconnect(websocket) ==
    /\ LoopFree
    /\ ws[websocket].state \in {"open", "broken"}
    /\ active_connections' = disconnect(ws[websocket].session_id)
    /\ ws' = [ws EXCEPT ![websocket].state = "closed"]
    /\ received' = [received EXCEPT ![websocket] = NoMessage]
    /\ response' = NoResponse
    /\ UNCHANGED <<store_vars, published, loop_owner, pc, request, proc,
                   local_vars, now, budget>>

\* the clock advances
Tick(d) ==
    /\ budget.ticks > 0
    /\ \E s \in Sessions : /\ proc[s] \in {"alive", "silent", "closed"}
                            /\ (pc[s] = "readline" \/ loop_owner # s)
    /\ now' = now + d
    /\ budget' = [budget EXCEPT !.ticks = @ - 1]
    /\ response' = NoResponse
    /\ UNCHANGED <<store_vars, notifier_vars, loop_owner, pc, request, proc,
                   local_vars>>

\* ------------------------------------------------------- result artifacts
\* JSON values: strings, null, lists and dicts (insertion-ordered key/value pairs)
JStr(v) == [t |-> "str", v |-> v]
JNull == [t |-> "null"]
JList(items) == [t |-> "list", items |-> items]
JDict(items) == [t |-> "dict", items |-> items]
IsDict(j) == j.t = "dict"
HasKey(j, key) == \E i \in 1..Len(j.items) : j.items[i][1] = key
\* dict.get(key, default) on a JSON dict
JGet(j, key, default) ==
    IF HasKey(j, key)
    THEN j.items[CHOOSE i \in 1..Len(j.items) : j.items[i][1] = key][2]
    ELSE default

UpperChar(c) == IF \E i \in 1..26 : LOWER[i] = c
                THEN UPPER[CHOOSE i \in 1..26 : LOWER[i] = c]
                ELSE c
IsLetter(c) == \E i \in 1..26 : LOWER[i] = c \/ UPPER[i] = c
\* str.title()
title(s) == [i \in 1..Len(s) |->
                IF i = 1 \/ ~IsLetter(s[i - 1]) THEN UpperChar(s[i]) ELSE LowerChar(s[i])]

\* what report_<username>_simple.json can be when the process has exited
Missing == [t |-> "missing"]
Malformed == [t |-> "malformed"]
File(data) == [t |-> "file", data |-> data]
SiteData(username, status) ==
    JDict(<< <<"status", JDict(<< <<"status", status>> >>)>>,
             <<"url_main", JStr("https://github.com")>>,
             <<"url_user", JStr("https://github.com/" \o username)>> >>)
ArtifactChoices(username) ==
    { Missing,
      Malformed,
      File(JDict(<< <<"GitHub", SiteData(username, JStr("claimed"))>> >>)),
      File(JDict(<< <<"GitHub", SiteData(username, JNull)>> >>)) }
\* the files of the reports directory: one choice per requested username
ReportDirs(usernames) ==
    LET names == {usernames[i] : i \in 1..Len(usernames)} IN
    { r \in [names -> UNION {ArtifactChoices(u) : u \in names}] :
        \A u \in names : r[u] \in ArtifactChoices(u) }

JSONDecodeError == "Expecting value: line 1 column 1 (char 0)"
AttributeError == "'NoneType' object has no attribute 'lower'"

\* a file that does not parse is taken for a file that is not there
RECURSIVE LoadResultsLenient(_, _, _)
LoadResultsLenient(usernames, files, k) ==
    IF k > Len(usernames) THEN [ok |-> TRUE, all_results |-> <<>>]
    ELSE LET username == usernames[k]
             file == files[username]
             rest == LoadResultsLenient(usernames, files, k + 1)
             data == IF file.t = "file" THEN file.data
                     ELSE JDict(<< <<"username", JStr(username)>>,
                                   <<"sites", JDict(<<>>)>> >>)
         IN  [ok |-> TRUE, all_results |-> <<data>> \o rest.all_results]

\* main.py:589-605: all_results, or the JSONDecodeError of the first
\* malformed file
RECURSIVE LoadResults(_, _, _)
LoadResults(usernames, files, k) ==
    IF k > Len(usernames) THEN [ok |-> TRUE, all_results |-> <<>>]
    ELSE LET username == usernames[k]
             file == files[username]
         IN  IF file.t = "malformed" THEN [ok |-> FALSE, error |-> JSONDecodeError]
             ELSE LET rest == LoadResults(usernames, files, k + 1)
                      data == IF file.t = "file" THEN file.data
                              ELSE JDict(<< <<"username", JStr(username)>>,
                                            <<"sites", JDict(<<>>)>> >>)
                  IN  IF rest.ok
                      THEN [ok |-> TRUE, all_results |-> <<data>> \o rest.all_results]
                      ELSE rest

\* main.py:625-639: the site_result of one item of a result dict; none for
\* an item that is skipped; an error when the status cannot be normalized
SiteResult(site_name, site_data) ==
    IF ~(IsDict(site_data) /\ HasKey(site_data, "status"))
    THEN [ok |-> TRUE, sites |-> <<>>]
    ELSE LET status == JGet(site_data, "status", JDict(<<>>))
             raw_status == IF IsDict(status)
                           THEN JGet(status, "status", JStr("unknown"))
                           ELSE IF status.t = "str" THEN status ELSE JStr("None")
         IN  IF raw_status.t # "str" THEN [ok |-> FALSE, error |-> AttributeError]
             ELSE LET raw == Chars(raw_status.v)
                      normalized_status ==
                          IF Str(lower(raw)) \in {"claimed", "unclaimed"}
                          THEN Str(title(raw)) ELSE raw_status.v
                  IN  [ok |-> TRUE,
                       sites |-> << [ siteName |-> site_name,
                                      url |-> JGet(site_data, "url_main", JStr("")),
                                      status |-> normalized_status,
                                      tags |-> JGet(site_data, "tags", JList(<<>>)),
                                      metadata |-> JGet(site_data, "metadata", JDict(<<>>)),
                                      urlUser |-> JGet(site_data, "url_user", JStr("")) ] >>]

\* main.py:624-640: the site results of the items of one result dict, from item k
RECURSIVE ItemsResults(_, _)
ItemsResults(items, k) ==
    IF k > Len(items) THEN [ok |-> TRUE, sites |-> <<>>]
    ELSE LET first == SiteResult(items[k][1], items[k][2])
         IN  IF ~first.ok THEN first
             ELSE LET rest == ItemsResults(items, k + 1)
                  IN  IF rest.ok THEN [ok |-> TRUE, sites |-> first.sites \o rest.sites]
                      ELSE rest

\* main.py:620-640: the inner loop over all_results, from result k
RECURSIVE UserSites(_, _)
UserSites(all_results, k) ==
    IF k > Len(all_results) THEN [ok |-> TRUE, sites |-> <<>>]
    ELSE LET first == IF IsDict(all_results[k]) THEN ItemsResults(all_results[k].items, 1)
                      ELSE [ok |-> TRUE, sites |-> <<>>]
         IN  IF ~first.ok THEN first
             ELSE LET rest == UserSites(all_results, k + 1)
                  IN  IF rest.ok THEN [ok |-> TRUE, sites |-> first.sites \o rest.sites]
                      ELSE rest

\* main.py:610-643: formatted_results, from username k
RECURSIVE FormatResults(_, _, _)
FormatResults(usernames, all_results, k) ==
    IF k > Len(usernames) THEN [ok |-> TRUE, results |-> <<>>]
    ELSE LET mine == UserSites(all_results, 1)
         IN  IF ~mine.ok THEN mine
             ELSE LET rest == FormatResults(usernames, all_results, k + 1)
                      user_results == [ username |-> usernames[k],
                                        sites |-> mine.sites,
                                        extractedData |-> JDict(<<>>),
                                        networkGraph |-> <<>> ]
                  IN  IF rest.ok
                      THEN [ok |-> TRUE, results |-> <<user_results>> \o rest.results]
                      ELSE rest

\* ---------------------------------------------------------- the job runner
\* perform_maigret_search(session_id, request), one action per store write,
\* blocking call or await.

\* a step that only writes updates to the store and goes on
WriteStep(s, from, to, updates, ok) ==
    /\ Runs(s, from)
    /\ update_session_data(s, updates, ok)
    /\ pc' = [pc EXCEPT ![s] = to]
    /\ loop_owner' = s
    /\ response' = NoResponse
    /\ UNCHANGED <<notifier_vars, request, proc, now>>

\* a step that writes nothing to the store
NoWrite(s) ==
    /\ session_locks' = session_locks \cup {s}
    /\ UNCHANGED <<search_sessions, sessions_file, last_saved, last_write, budget>>

\* the first write leaves the status as it is
run_start_keeps_status(s, ok) ==
    /\ WriteStep(s, "start", "prepare",
                 [ progress |-> 0,
                   currentSite |-> "Initializing...", sitesChecked |-> 0,
                   totalSites |-> 0, resultsFound |-> 0 ], ok)
    /\ UNCHANGED local_vars

\* main.py:279-286
run_start(s, ok) ==
    /\ WriteStep(s, "start", "prepare",
                 [ status |-> "running", progress |-> 0,
                   currentSite |-> "Initializing...", sitesChecked |-> 0,
                   totalSites |-> 0, resultsFound |-> 0 ], ok)
    /\ UNCHANGED local_vars

\* main.py:291-294
run_prepare(s, ok) ==
    /\ WriteStep(s, "prepare", "command",
                 [progress |-> 1, currentSite |-> "Preparing search..."], ok)
    /\ UNCHANGED local_vars

\* main.py:343-346
run_command(s, ok) ==
    /\ WriteStep(s, "command", "popen",
                 [progress |-> 2, currentSite |-> "Starting search process..."], ok)
    /\ UNCHANGED local_vars

\* main.py:352-373: the process is started and the locals are initialised
run_popen(s) ==
    /\ Runs(s, "popen")
    /\ proc' = [proc EXCEPT ![s] = "alive"]
    /\ total_sites' = [total_sites EXCEPT ![s] = 0]
    /\ sites_checked' = [sites_checked EXCEPT ![s] = 0]
    /\ results_found' = [results_found EXCEPT ![s] = 0]
    /\ current_site' = [current_site EXCEPT ![s] = "Initializing..."]
    /\ last_progress_update' = [last_progress_update EXCEPT ![s] = 0]
    /\ start_time' = [start_time EXCEPT ![s] = now]
    /\ timeout_seconds' = [timeout_seconds EXCEPT ![s] = Max(request[s].timeout * 2, 120)]
    /\ pc' = [pc EXCEPT ![s] = "searching"]
    /\ loop_owner' = s
    /\ response' = NoResponse
    /\ UNCHANGED <<store_vars, notifier_vars, request, output, scan, return_code,
                   reports, now, budget>>

\* the handler publishes the failure and does not write it to the store
except_Exception_unrecorded(s, from, e, ok, sent, yield) ==
    /\ Runs(s, from)
    /\ ok /\ NoWrite(s)
    /\ send_progress_update(s, [ type |-> "failed",
                                 data |-> [sessionId |-> s, status |-> "failed",
                                           error |-> e] ], sent)
    /\ pc' = [pc EXCEPT ![s] = "except_terminate"]
    /\ loop_owner' = IF yield THEN None ELSE s
    /\ response' = NoResponse
    /\ UNCHANGED <<request, proc, local_vars, now>>

\* main.py:742-757: the handler of `except Exception`, entered from position
\* `from` with the exception message e
except_Exception(s, from, e, ok, sent, yield) ==
    /\ Runs(s, from)
    /\ update_session_data(s, [status |-> "failed", error |-> e], ok)
    /\ send_progress_update(s, [ type |-> "failed",
                                 data |-> [sessionId |-> s, status |-> "failed",
                                           error |-> e] ], sent)
    /\ pc' = [pc EXCEPT ![s] = "except_terminate"]
    /\ loop_owner' = IF yield THEN None ELSE s
    /\ response' = NoResponse
    /\ UNCHANGED <<request, proc, local_vars, now>>

OSError == "[Errno 2] No such file or directory: 'python3'"
UnicodeDecodeError == "'utf-8' codec can't decode byte 0xff in position 0: invalid start byte"

\* main.py:352: subprocess.Popen raises
run_popen_raises(s, ok, sent, yield) ==
    except_Exception(s, "popen", OSError, ok, sent, yield)

\* main.py:435: readline raises
run_readline_raises(s, ok, sent, yield) ==
    /\ proc[s] = "alive"
    /\ except_Exception(s, "readline", UnicodeDecodeError, ok, sent, yield)

\* the handler records the termination in the session after it has failed it
run_except_terminate_records(s) ==
    /\ Runs(s, "except_terminate")
    /\ proc' = [proc EXCEPT ![s] = IF @ \in {"alive", "silent", "closed"}
                                   THEN "terminated" ELSE @]
    /\ update_session_data(s, [currentSite |-> "Terminated"], TRUE)
    /\ pc' = [pc EXCEPT ![s] = "done"]
    /\ loop_owner' = None
    /\ response' = NoResponse
    /\ UNCHANGED <<notifier_vars, request, local_vars, now>>

\* main.py:759-761
run_except_terminate(s) ==
    /\ Runs(s, "except_terminate")
    /\ proc' = [proc EXCEPT ![s] = IF @ \in {"alive", "silent", "closed"}
                                   THEN "terminated" ELSE @]
    /\ pc' = [pc EXCEPT ![s] = "done"]
    /\ loop_owner' = None
    /\ response' = NoResponse
    /\ UNCHANGED <<store_vars, notifier_vars, request, local_vars, now, budget>>

\* main.py:419-422
run_searching(s, ok) ==
    /\ WriteStep(s, "searching", "loop",
                 [progress |-> 3, currentSite |-> "Searching sites..."], ok)
    /\ UNCHANGED local_vars

\* main.py:424-433: the head of the loop, with the deadline check
run_loop(s, ok) ==
    /\ Runs(s, "loop")
    /\ IF now - start_time[s] > timeout_seconds[s] * TicksPerSecond
       THEN /\ proc' = [proc EXCEPT ![s] = IF @ \in {"alive", "silent", "closed"}
                                           THEN "terminated" ELSE @]
            /\ update_session_data(s, [status |-> "failed",
                                       error |-> "Search timed out"], ok)
            /\ pc' = [pc EXCEPT ![s] = "done"]
            /\ loop_owner' = None
       ELSE /\ ok
            /\ pc' = [pc EXCEPT ![s] = "readline"]
            /\ loop_owner' = s
            /\ UNCHANGED <<proc, store_vars, budget>>
    /\ response' = NoResponse
    /\ UNCHANGED <<notifier_vars, request, local_vars, now>>

\* the lines that a process may write next
NextChunks == IF budget.script # <<>> THEN {Head(budget.script)} ELSE budget.chunks

\* main.py:435-439: readline returns a line of the process
run_readline(s, chunk) ==
    /\ Runs(s, "readline")
    /\ proc[s] = "alive"
    /\ budget.lines[s] > 0
    /\ chunk \in NextChunks
    /\ output' = [output EXCEPT ![s] = chunk]
    /\ scan' = [scan EXCEPT ![s] = Scan(chunk)]
    /\ budget' = [budget EXCEPT !.lines[s] = @ - 1,
                                 !.script = IF @ = <<>> THEN @ ELSE Tail(@)]
    /\ pc' = [pc EXCEPT ![s] = "parse_total"]
    /\ loop_owner' = s
    /\ response' = NoResponse
    /\ UNCHANGED <<store_vars, notifier_vars, request, proc, total_sites, sites_checked,
                   results_found, current_site, last_progress_update, start_time,
                   timeout_seconds, return_code, reports, now>>

\* main.py:435-437: the process has exited with code rc; readline returns ''
\* and poll() is not None
run_readline_eof(s, rc) ==
    /\ Runs(s, "readline")
    /\ proc[s] \in {"alive", "closed"}
    /\ proc' = [proc EXCEPT ![s] = "exited"]
    /\ return_code' = [return_code EXCEPT ![s] = rc]
    /\ pc' = [pc EXCEPT ![s] = "wait"]
    /\ loop_owner' = s
    /\ response' = NoResponse
    /\ UNCHANGED <<store_vars, notifier_vars, request, total_sites, sites_checked,
                   results_found, current_site, last_progress_update, start_time,
                   timeout_seconds, output, scan, reports, now, budget>>

\* main.py:435-438: the process closed its output but runs on; readline
\* returns '' and poll() is None
run_readline_closed(s) ==
    /\ Runs(s, "readline")
    /\ proc[s] \in {"alive", "closed"}
    /\ proc' = [proc EXCEPT ![s] = "closed"]
    /\ pc' = [pc EXCEPT ![s] = "loop"]
    /\ loop_owner' = s
    /\ response' = NoResponse
    /\ UNCHANGED <<store_vars, notifier_vars, request, local_vars, now, budget>>

\* the external process stops writing and never exits: readline (main.py:435)
\* does not return
process_hangs(s) ==
    /\ pc[s] = "readline"
    /\ proc[s] = "alive"
    /\ proc' = [proc EXCEPT ![s] = "silent"]
    /\ response' = NoResponse
    /\ UNCHANGED <<store_vars, notifier_vars, loop_owner, pc, request, local_vars,
                   now, budget>>

\* int((a / b) * 100); exact on the counters of OutputLines
percent(a, b) == (a * 100) \div b

\* a parsing step: from one position of the loop body to the next
ParseStep(s, from, to) ==
    /\ Runs(s, from)
    /\ pc' = [pc EXCEPT ![s] = to]
    /\ loop_owner' = s
    /\ response' = NoResponse
    /\ UNCHANGED <<notifier_vars, request, proc, last_progress_update, start_time,
                   timeout_seconds, output, scan, return_code, reports, now>>

\* main.py:445-455: total discovery
parse_total(s, ok) ==
    /\ ParseStep(s, "parse_total", "parse_progress")
    /\ LET sc == scan[s] IN
       IF sc.announces /\ sc.sites_match.ok /\ total_sites[s] = 0
       THEN /\ total_sites' = [total_sites EXCEPT ![s] = int(sc.sites_match.groups[1])]
            /\ update_session_data(s, [ totalSites |-> total_sites'[s],
                                        currentSite |-> "Starting search...",
                                        progress |-> 5 ], ok)
       ELSE /\ ok
            /\ UNCHANGED <<total_sites, store_vars, budget>>
    /\ UNCHANGED <<sites_checked, results_found, current_site>>

\* main.py:471-490: the first counter pattern that matches
parse_progress(s, ok) ==
    /\ ParseStep(s, "parse_progress", "parse_bar")
    /\ LET progress_match == scan[s].progress_match IN
       IF progress_match.ok
       THEN LET three == Len(progress_match.groups) = 3
                checked == int(progress_match.groups[1])
                total == IF three \/ total_sites[s] = 0
                         THEN int(progress_match.groups[2]) ELSE total_sites[s]
                progress_percent ==
                    IF three THEN int(progress_match.groups[3])
                    ELSE Min(95, percent(checked, Max(total, 1)))
            IN  /\ sites_checked' = [sites_checked EXCEPT ![s] = checked]
                /\ total_sites' = [total_sites EXCEPT ![s] = total]
                /\ update_session_data(s, [ totalSites |-> total,
                                            sitesChecked |-> checked,
                                            progress |-> progress_percent ], ok)
       ELSE /\ ok
            /\ UNCHANGED <<sites_checked, total_sites, store_vars, budget>>
    /\ UNCHANGED <<results_found, current_site>>

\* main.py:493-509: the visual bar
parse_bar(s, ok) ==
    /\ ParseStep(s, "parse_bar", "parse_site")
    /\ LET sc == scan[s]
           bar == sc.bar_match.groups[1]
           filled == count(bar, "█")
           total_length == Len(bar)
           estimated_progress == Min(95, percent(filled, total_length))
           session_data == get_session_data(s)
       IN  IF sc.has_bar /\ sc.bar_match.ok
           THEN IF total_length > 0 /\ estimated_progress > Get(session_data, "progress", 0)
                THEN update_session_data(s,
                         [ progress |-> estimated_progress,
                           currentSite |-> IF sites_checked[s] > 0
                                           THEN "Site " \o ToString(sites_checked[s] + 1)
                                           ELSE "Processing sites..." ], ok)
                ELSE ok /\ NoWrite(s)
           ELSE /\ ok
                /\ UNCHANGED <<store_vars, budget>>
    /\ UNCHANGED <<total_sites, sites_checked, results_found, current_site>>

\* main.py:511-532: the label of the current site
parse_site(s, ok) ==
    /\ ParseStep(s, "parse_site", "parse_initializing")
    /\ LET site_match == scan[s].site_match IN
       IF site_match.ok
       THEN /\ current_site' = [current_site EXCEPT ![s] = Str(site_match.groups[1])]
            /\ update_session_data(s, [currentSite |-> current_site'[s]], ok)
       ELSE IF sites_checked[s] > 0 /\ current_site[s] \in {"", "Initializing..."}
       THEN /\ current_site' = [current_site EXCEPT ![s] =
                                    "Site " \o ToString(sites_checked[s])]
            /\ update_session_data(s, [currentSite |-> current_site'[s]], ok)
       ELSE /\ ok
            /\ UNCHANGED <<current_site, store_vars, budget>>
    /\ UNCHANGED <<total_sites, sites_checked, results_found>>

\* main.py:534-541
parse_initializing(s, ok) ==
    /\ ParseStep(s, "parse_initializing", "parse_result")
    /\ IF current_site[s] = "Initializing..." /\ now - start_time[s] > 3 * TicksPerSecond
       THEN /\ current_site' = [current_site EXCEPT ![s] = "Preparing search environment..."]
            /\ update_session_data(s,
                   [ currentSite |-> current_site'[s],
                     progress |-> Max(Get(get_session_data(s), "progress", 0), 4) ], ok)
       ELSE /\ ok
            /\ UNCHANGED <<current_site, store_vars, budget>>
    /\ UNCHANGED <<total_sites, sites_checked, results_found>>

\* main.py:543-558: found results
parse_result(s, ok) ==
    /\ ParseStep(s, "parse_result", "update_progress")
    /\ IF scan[s].result_match
       THEN /\ results_found' = [results_found EXCEPT ![s] = @ + 1]
            /\ update_session_data(s, [resultsFound |-> results_found'[s]], ok)
       ELSE /\ ok
            /\ UNCHANGED <<results_found, store_vars, budget>>
    /\ UNCHANGED <<total_sites, sites_checked, current_site>>

\* the larger of the percentage of the counters and the estimate from the time
ReportedProgressMax(s) ==
    LET elapsed_time == now - start_time[s]
        estimated_progress == Min(90, Max(2, (elapsed_time * 3) \div (5 * TicksPerSecond)))
        counted == IF total_sites[s] > 0 /\ sites_checked[s] > 0
                   THEN Min(95, percent(sites_checked[s], total_sites[s])) ELSE 0
    IN  Max(counted, estimated_progress)

\* main.py:381-390: the progress that update_progress reports
ReportedProgress(s) ==
    IF total_sites[s] > 0 /\ sites_checked[s] > 0
    THEN Min(95, percent(sites_checked[s], total_sites[s]))
    ELSE LET elapsed_time == now - start_time[s]
             min_progress == Max(2, (elapsed_time * 3) \div (5 * TicksPerSecond))
         IN  Min(90, min_progress)

\* the cycle writes to the store only on the way to a registered observer
update_progress_if_observed(s, ok, sent, yield) ==
    /\ Runs(s, "update_progress")
    /\ IF (now - last_progress_update[s]) * 2 >= TicksPerSecond
       THEN LET progress == ReportedProgress(s) IN
            /\ IF s \in DOMAIN active_connections
               THEN update_session_data(s, [ progress |-> progress,
                                             sitesChecked |-> sites_checked[s],
                                             totalSites |-> total_sites[s],
                                             resultsFound |-> results_found[s],
                                             currentSite |-> current_site[s] ], ok)
               ELSE ok /\ UNCHANGED <<store_vars, budget>>
            /\ send_progress_update(s,
                   [ type |-> "progress",
                     data |-> [ sessionId |-> s,
                                status |-> Get(search_sessions'[s], "status", "running"),
                                progress |-> progress,
                                currentSite |-> current_site[s],
                                sitesChecked |-> sites_checked[s],
                                totalSites |-> total_sites[s],
                                resultsFound |-> results_found[s] ] ], sent)
            /\ last_progress_update' = [last_progress_update EXCEPT ![s] = now]
            /\ loop_owner' = IF yield THEN None ELSE s
       ELSE /\ ok /\ sent /\ ~yield
            /\ loop_owner' = s
            /\ UNCHANGED <<store_vars, budget, notifier_vars, last_progress_update>>
    /\ pc' = [pc EXCEPT ![s] = "ensure_progress"]
    /\ response' = NoResponse
    /\ UNCHANGED <<request, proc, total_sites, sites_checked, results_found, current_site,
                   start_time, timeout_seconds, output, scan, return_code, reports, now>>

\* main.py:376-416 and 561: await update_progress()
update_progress(s, ok, sent, yield) ==
    /\ Runs(s, "update_progress")
    /\ IF (now - last_progress_update[s]) * 2 >= TicksPerSecond
       THEN LET progress == ReportedProgress(s) IN
            /\ update_session_data(s, [ progress |-> progress,
                                        sitesChecked |-> sites_checked[s],
                                        totalSites |-> total_sites[s],
                                        resultsFound |-> results_found[s],
                                        currentSite |-> current_site[s] ], ok)
            /\ send_progress_update(s,
                   [ type |-> "progress",
                     data |-> [ sessionId |-> s,
                                status |-> Get(search_sessions'[s], "status", "running"),
                                progress |-> progress,
                                currentSite |-> current_site[s],
                                sitesChecked |-> sites_checked[s],
                                totalSites |-> total_sites[s],
                                resultsFound |-> results_found[s] ] ], sent)
            /\ last_progress_update' = [last_progress_update EXCEPT ![s] = now]
            /\ loop_owner' = IF yield THEN None ELSE s
       ELSE /\ ok /\ sent /\ ~yield
            /\ loop_owner' = s
            /\ UNCHANGED <<store_vars, budget, notifier_vars, last_progress_update>>
    /\ pc' = [pc EXCEPT ![s] = "ensure_progress"]
    /\ response' = NoResponse
    /\ UNCHANGED <<request, proc, total_sites, sites_checked, results_found, current_site,
                   start_time, timeout_seconds, output, scan, return_code, reports, now>>

\* main.py:563-569
ensure_progress(s, ok) ==
    /\ Runs(s, "ensure_progress")
    /\ IF Get(get_session_data(s), "progress", 0) < 3
          /\ now - start_time[s] > 2 * TicksPerSecond
       THEN update_session_data(s, [ progress |-> 3,
                                     currentSite |-> "Starting search process..." ], ok)
       ELSE ok /\ NoWrite(s)
    /\ pc' = [pc EXCEPT ![s] = "loop"]
    /\ loop_owner' = s
    /\ response' = NoResponse
    /\ UNCHANGED <<notifier_vars, request, proc, local_vars, now>>

\* main.py:571-580: process.wait() and the final progress update
run_wait(s, ok) ==
    /\ Runs(s, "wait")
    /\ LET session_data == get_session_data(s) IN
       IF Get(session_data, "progress", 0) < 95
          /\ Get(session_data, "status", None) = "running"
       THEN update_session_data(s, [ progress |-> 95,
                                     currentSite |-> "Processing results..." ], ok)
       ELSE ok /\ NoWrite(s)
    /\ pc' = [pc EXCEPT ![s] = IF return_code[s] = 0 THEN "results" ELSE "failed"]
    /\ loop_owner' = s
    /\ response' = NoResponse
    /\ UNCHANGED <<notifier_vars, request, proc, local_vars, now>>

\* the completing update carries no completion timestamp
run_results_undated(s, files, ok, sent) ==
    /\ reports' = [reports EXCEPT ![s] = files]
    /\ LET loaded == LoadResults(request[s].usernames, files, 1)
           formatted == FormatResults(request[s].usernames, loaded.all_results, 1)
           error == IF ~loaded.ok THEN "Failed to parse results: " \o loaded.error
                    ELSE "Failed to process results: " \o formatted.error
       IN  IF loaded.ok /\ formatted.ok
           THEN /\ update_session_data(s, [ results |-> formatted.results,
                                            status |-> "completed",
                                            progress |-> 100 ], ok)
                /\ send_progress_update(s,
                       [ type |-> "completed",
                         data |-> [ sessionId |-> s, status |-> "completed",
                                    progress |-> 100,
                                    results |-> formatted.results ] ], sent)
           ELSE /\ update_session_data(s, [status |-> "failed", error |-> error], ok)
                /\ send_progress_update(s,
                       [ type |-> "failed",
                         data |-> [sessionId |-> s, status |-> "failed",
                                   error |-> error] ], sent)
    /\ pc' = [pc EXCEPT ![s] = "done"]
    /\ loop_owner' = None
    /\ response' = NoResponse
    /\ UNCHANGED <<request, proc, total_sites, sites_checked, results_found, current_site,
                   last_progress_update, start_time, timeout_seconds, output, scan,
                   return_code, now>>

\* main.py:582-708: the results are loaded and formatted, the session is
\* completed, or failed when loading or formatting raises
run_results(s, files, ok, sent) ==
    /\ reports' = [reports EXCEPT ![s] = files]
    /\ LET loaded == LoadResults(request[s].usernames, files, 1)
           formatted == FormatResults(request[s].usernames, loaded.all_results, 1)
           error == IF ~loaded.ok THEN "Failed to parse results: " \o loaded.error
                    ELSE "Failed to process results: " \o formatted.error
       IN  IF loaded.ok /\ formatted.ok
           THEN /\ update_session_data(s, [ results |-> formatted.results,
                                            status |-> "completed",
                                            progress |-> 100,
                                            completedAt |-> now ], ok)
                /\ send_progress_update(s,
                       [ type |-> "completed",
                         data |-> [ sessionId |-> s, status |-> "completed",
                                    progress |-> 100,
                                    results |-> formatted.results ] ], sent)
           ELSE /\ update_session_data(s, [status |-> "failed", error |-> error], ok)
                /\ send_progress_update(s,
                       [ type |-> "failed",
                         data |-> [sessionId |-> s, status |-> "failed",
                                   error |-> error] ], sent)
    /\ pc' = [pc EXCEPT ![s] = "done"]
    /\ loop_owner' = None
    /\ response' = NoResponse
    /\ UNCHANGED <<request, proc, total_sites, sites_checked, results_found, current_site,
                   last_progress_update, start_time, timeout_seconds, output, scan,
                   return_code, now>>

\* the error message does not name the exit code
run_failed_unnumbered(s, ok, sent) ==
    /\ Runs(s, "failed")
    /\ LET error == "Maigret search failed"
       IN  /\ update_session_data(s, [status |-> "failed", error |-> error], ok)
           /\ send_progress_update(s,
                  [ type |-> "failed",
                    data |-> [sessionId |-> s, status |-> "failed", error |-> error] ],
                  sent)
    /\ pc' = [pc EXCEPT ![s] = "done"]
    /\ loop_owner' = None
    /\ response' = NoResponse
    /\ UNCHANGED <<request, proc, local_vars, now>>

\* main.py:709-724: the process exited with a nonzero code
run_failed(s, ok, sent) ==
    /\ Runs(s, "failed")
    /\ LET error == "Maigret search failed with return code: " \o ToString(return_code[s])
       IN  /\ update_session_data(s, [status |-> "failed", error |-> error], ok)
           /\ send_progress_update(s,
                  [ type |-> "failed",
                    data |-> [sessionId |-> s, status |-> "failed", error |-> error] ],
                  sent)
    /\ pc' = [pc EXCEPT ![s] = "done"]
    /\ loop_owner' = None
    /\ response' = NoResponse
    /\ UNCHANGED <<request, proc, local_vars, now>>

\* ------------------------------------------------------------ specification
\* main.py:435: process.stdout.readline() returns or raises; when and with
\* what is up to the external process
Readline(s) ==
    \/ \E chunk \in NextChunks : run_readline(s, chunk)
    \/ \E rc \in {0, 1} : run_readline_eof(s, rc)
    \/ run_readline_closed(s)
    \/ \E ok \in SaveOutcomes, sent \in SendOutcomes(s), yield \in Yields(s) :
           run_readline_raises(s, ok, sent, yield)

\* the steps that the job runner of session s takes on its own
Proceeds(s) ==
    \/ \E ok \in SaveOutcomes : run_start(s, ok)
    \/ \E ok \in SaveOutcomes : run_prepare(s, ok)
    \/ \E ok \in SaveOutcomes : run_command(s, ok)
    \/ run_popen(s)
    \/ \E ok \in SaveOutcomes, sent \in SendOutcomes(s), yield \in Yields(s) :
           run_popen_raises(s, ok, sent, yield)
    \/ \E ok \in SaveOutcomes : run_searching(s, ok)
    \/ \E ok \in SaveOutcomes : run_loop(s, ok)
    \/ \E ok \in SaveOutcomes : parse_total(s, ok)
    \/ \E ok \in SaveOutcomes : parse_progress(s, ok)
    \/ \E ok \in SaveOutcomes : parse_bar(s, ok)
    \/ \E ok \in SaveOutcomes : parse_site(s, ok)
    \/ \E ok \in SaveOutcomes : parse_initializing(s, ok)
    \/ \E ok \in SaveOutcomes : parse_result(s, ok)
    \/ \E ok \in SaveOutcomes, sent \in SendOutcomes(s), yield \in Yields(s) :
           update_progress(s, ok, sent, yield)
    \/ \E ok \in SaveOutcomes : ensure_progress(s, ok)
    \/ \E ok \in SaveOutcomes : run_wait(s, ok)
    \/ /\ Runs(s, "results")
       /\ \E r \in ReportDirs(request[s].usernames), ok \in SaveOutcomes,
              sent \in SendOutcomes(s) :
              run_results(s, r, ok, sent)
    \/ \E ok \in SaveOutcomes, sent \in SendOutcomes(s) : run_failed(s, ok, sent)
    \/ run_except_terminate(s)

\* perform_maigret_search(s, request[s])
Runner(s) == Proceeds(s) \/ Readline(s)

\* the clients, the clock and the external processes
Environment ==
    \/ \E s \in Sessions, r \in budget.requests, ok \in SaveOutcomes :
           start_search(s, r.usernames, r.timeout, ok)
    \/ \E s \in KnownOrNext : get_search_status(s)
    \/ \E s \in KnownOrNext : get_search_results(s)
    \/ \E o \in Observers, s \in Sessions : websocket_connect(o, s)
    \/ \E o \in Observers : websocket_disconnect(o)
    \/ \E d \in TickSteps : Tick(d)
    \/ \E s \in Sessions : process_hangs(s)

Next == Environment \/ \E s \in Sessions : Runner(s)

Spec == Init /\ [][Next]_vars

\* The event loop resumes a task that is ready: a job runner that can take a
\* step on its own eventually takes one.  Nothing is assumed of the clients,
\* of the clock or of the external processes, and so nothing of readline.
FairSpec == Spec /\ \A s \in Sessions : WF_vars(Proceeds(s))

\* ------------------------------------------------------------------ claims
StatusOf(store, s) == Get(store[s], "status", "pending")
ProgressOf(store, s) == Get(store[s], "progress", 0)
Terminal(store, s) == StatusOf(store, s) \in {"completed", "failed"}

\* C1: while the status of a session is running, no step lowers the progress
\* stored in its record: every write of progress is at least the value stored
\* just before it.
C1_StoredProgressNeverDecreases ==
    [][\A s \in DOMAIN search_sessions :
          ( /\ StatusOf(search_sessions, s) = "running"
            /\ StatusOf(search_sessions', s) = "running" )
          => ProgressOf(search_sessions', s) >= ProgressOf(search_sessions, s)]_vars

\* C2: the progress events published for a session carry percentages that
\* never decrease from one event to the next.
C2_PublishedProgressNeverDecreases ==
    [][\A s \in Sessions :
          (published[s].type = "progress" /\ published'[s].type = "progress")
          => published'[s].data.progress >= published[s].data.progress]_vars

\* C3: in every reachable state the progress of a record is 100 exactly when
\* its status is completed.
C3_HundredIffCompleted ==
    \A s \in DOMAIN search_sessions :
        ProgressOf(search_sessions, s) = 100 <=> StatusOf(search_sessions, s) = "completed"

\* C4: the status of a record only moves from pending to running and from
\* running to completed or failed; a record starts as pending.
C4_StatusOrder ==
    [][ /\ \A s \in DOMAIN search_sessions :
             LET from == StatusOf(search_sessions, s)
                 to == StatusOf(search_sessions', s)
             IN  from # to => <<from, to>> \in { <<"pending", "running">>,
                                                 <<"running", "completed">>,
                                                 <<"running", "failed">> }
        /\ \A s \in DOMAIN search_sessions' \ DOMAIN search_sessions :
             StatusOf(search_sessions', s) = "pending" ]_vars

\* one session has been completed and another has been failed
C4_Witness ==
    \E a, b \in DOMAIN search_sessions :
        /\ StatusOf(search_sessions, a) = "completed"
        /\ StatusOf(search_sessions, b) = "failed"

\* C5: no step changes a field of a record whose status is completed or failed.
C5_TerminalRecordIsFinal ==
    [][\A s \in DOMAIN search_sessions :
          Terminal(search_sessions, s) => search_sessions'[s] = search_sessions[s]]_vars

\* the status of a session is asked after its runner has failed it and has
\* then terminated the process
C5_Witness ==
    \E s \in DOMAIN search_sessions :
        /\ Terminal(search_sessions, s)
        /\ pc[s] = "done"
        /\ proc[s] = "terminated"
        /\ Get(search_sessions[s], "error", None) # "Search timed out"
        /\ response.op = "get_search_status"
        /\ response.session_id = s

DeadlinePassed(s) == now - start_time[s] > timeout_seconds[s] * TicksPerSecond

\* C7: a process that has stopped writing and does not exit is terminated,
\* and its session is failed with the timeout error, once the deadline has
\* passed.
C7_SilentProcessTimesOut ==
    \A s \in Sessions :
        (proc[s] = "silent" /\ DeadlinePassed(s))
        ~> ( /\ proc[s] = "terminated"
             /\ StatusOf(search_sessions, s) = "failed"
             /\ Get(search_sessions[s], "error", None) = "Search timed out" )

\* what get_search_results answers for the store
ResultsAnswer(store, r) ==
    r.op = "get_search_results" =>
        IF r.session_id \notin DOMAIN store THEN r.code = 404
        ELSE IF StatusOf(store, r.session_id) = "completed"
        THEN r.code = 200 /\ r.data = store[r.session_id]
        ELSE r.code = 400
\* what get_search_status answers for an unknown identifier
StatusAnswer(store, r) ==
    r.op = "get_search_status" => (r.code = 404 <=> r.session_id \notin DOMAIN store)

\* C8: a query leaves the records and their snapshot as they are; results
\* answers 200 with the record exactly when the session is completed, 400 for
\* any other known session and 404 for an unknown identifier; status answers
\* 404 exactly for an unknown identifier.
C8_QueriesAnswerAndLeaveStore ==
    [][response'.op \in {"get_search_results", "get_search_status"} =>
          /\ search_sessions' = search_sessions
          /\ sessions_file' = sessions_file
          /\ ResultsAnswer(search_sessions, response')
          /\ StatusAnswer(search_sessions, response')]_vars

\* the results of a failed session have been asked and refused
C8_Witness ==
    /\ response.op = "get_search_results"
    /\ response.code = 400
    /\ StatusOf(search_sessions, response.session_id) = "failed"

\* the file is absent, or it loads and all its items can be formatted
Usable(file) ==
    /\ file.t # "malformed"
    /\ file.t = "file" => UserSites(<<file.data>>, 1).ok

\* C9: when the runner has read the reports of a process that exited with
\* code 0, one of them is missing and the others are usable, the session is
\* completed and the entry of the subject without a report has no sites.
C9_MissingArtifactGivesEmptyEntry ==
    \A s \in DOMAIN search_sessions :
        \A k \in 1..Len(request[s].usernames) :
            LET u == request[s].usernames[k] IN
            ( /\ DOMAIN reports[s] # {}
              /\ reports[s][u] = Missing
              /\ \A v \in DOMAIN reports[s] : Usable(reports[s][v]) )
            => /\ StatusOf(search_sessions, s) = "completed"
               /\ search_sessions[s]["results"][k].username = u
               /\ search_sessions[s]["results"][k].sites = <<>>

\* C10: a step of the runner of one session leaves the records of the other
\* sessions as they are, and a record changes only in a step of its own runner.
C10_RunnersWriteOwnRecord ==
    [][\A b \in DOMAIN search_sessions :
          /\ \A a \in Sessions \ {b} :
                 pc'[a] # pc[a] => search_sessions'[b] = search_sessions[b]
          /\ search_sessions'[b] # search_sessions[b] => pc'[b] # pc[b]]_vars

\* two runners are in flight: one has published its progress and waits for
\* the event loop, the other has started its process and reads from it
C10_Witness ==
    \E a, b \in DOMAIN search_sessions :
        /\ a # b
        /\ StatusOf(search_sessions, a) = "running" /\ pc[a] = "ensure_progress"
        /\ StatusOf(search_sessions, b) = "running" /\ pc[b] = "readline"

\* the parser of session s has just worked through the whole example output
ExampleFed(s) ==
    /\ budget.chunks = {}
    /\ budget.script = <<>>
    /\ pc[s] = "update_progress"

\* C11: after the lines "Searching | ████░░░░ | 40/100", "Checking
\* example.com" and "[FOUND]", in that order, of a fresh job, the parser has
\* sites-total 100, sites-checked 40, the label "example.com" and one result.
C11_ExampleOutputIsExtracted ==
    \A s \in Sessions :
        ExampleFed(s) => /\ total_sites[s] = 100
                         /\ sites_checked[s] = 40
                         /\ current_site[s] = "example.com"
                         /\ results_found[s] = 1

\* C12: a step that answers start_search creates no record and launches no
\* runner for a request without usernames; for any other request it creates
\* exactly one record, pending with progress 0, launches exactly one runner,
\* the one of that record, and answers with the record.
C12_SubmitValidatesAndCreates ==
    [][response'.op = "start_search" =>
          LET created == DOMAIN search_sessions' \ DOMAIN search_sessions
              launched == {s \in Sessions : pc[s] = "idle" /\ pc'[s] # "idle"}
          IN  /\ \A s \in created \cup launched : request'[s].usernames # <<>>
              /\ \A s \in created :
                     /\ created = {s}
                     /\ launched = {s}
                     /\ StatusOf(search_sessions', s) = "pending"
                     /\ ProgressOf(search_sessions', s) = 0
                     /\ response'.data = search_sessions'[s]
                     /\ pc'[s] = "start"]_vars

\* the observers that have subscribed to session s, and the last of them
Subscribers(s) == {o \in Observers : ws[o].state # "idle" /\ ws[o].session_id = s}
ConnectIndex(o) == CHOOSE i \in 1..Len(ObserverOrder) : ObserverOrder[i] = o
LastSubscriber(s) ==
    CHOOSE b \in Subscribers(s) : \A a \in Subscribers(s) : ConnectIndex(a) <= ConnectIndex(b)

\* C13: an event published for a session is sent to the last observer that
\* subscribed to it, as long as the channel of that observer is open, and to
\* no other observer.
C13_LastSubscriberGetsEveryEvent ==
    [][\A s \in Sessions :
          (published'[s] # published[s] /\ Subscribers(s) # {}) =>
              LET b == LastSubscriber(s) IN
              /\ ws[b].state = "open" =>
                     (received'[b] = published'[s] \/ ws'[b].state = "broken")
              /\ \A a \in Observers \ {b} : received'[a] = received[a]]_vars

\* two jobs have had the same request, the same output and exit of their
\* processes, the same reports and the same times (of creation, of the start
\* of the process, of the last progress cycle and of completion), and are at
\* the same position
SameInputs(a, b) ==
    /\ request[a] = request[b]
    /\ pc[a] = pc[b]
    /\ proc[a] = proc[b]
    /\ output[a] = output[b]
    /\ budget.lines[a] = budget.lines[b]
    /\ return_code[a] = return_code[b]
    /\ reports[a] = reports[b]
    /\ start_time[a] = start_time[b]
    /\ last_progress_update[a] = last_progress_update[b]
    /\ search_sessions[a]["createdAt"] = search_sessions[b]["createdAt"]
    /\ Get(search_sessions[a], "completedAt", 0) = Get(search_sessions[b], "completedAt", 0)
\* a record without its identifier
Fields(record) == [f \in DOMAIN record \ {"id"} |-> record[f]]

\* C14: two jobs with the same inputs have, at the same position, records
\* with the same fields, whatever observers have subscribed to, received
\* from or left either of them.
C14_RecordIndependentOfObservers ==
    \A a, b \in DOMAIN search_sessions :
        SameInputs(a, b) => Fields(search_sessions[a]) = Fields(search_sessions[b])

\* two completed jobs with the same inputs that have both read a line; an
\* observer of the one has received its completed event, the other has
\* never had an observer
C14_Witness ==
    \E a, b \in DOMAIN search_sessions : \E o \in Observers :
        /\ a # b
        /\ SameInputs(a, b)
        /\ pc[a] = "done"
        /\ StatusOf(search_sessions, a) = "completed"
        /\ output[a] # ""
        /\ ws[o].session_id = a
        /\ received[o].type = "completed"
        /\ Subscribers(b) = {}

\* the send to websocket o fails in this step
SendFails(o) == ws[o].state = "open" /\ ws'[o].state = "broken"

\* C15: a step in which the send to the registered observer of a session
\* fails removes the registration and does nothing else that the step would
\* not have done: after a progress event the runner goes on to the next
\* position of the loop and the status is as before, a completed session is
\* completed, and a session is failed only with the error of the event.
C15_FailedSendIsContained ==
    [][\A o \in Observers : SendFails(o) =>
          LET s == ws[o].session_id
              e == published'[s]
          IN  /\ active_connections[s] = o
              /\ s \notin DOMAIN active_connections'
              /\ e.type = "progress" =>
                    /\ pc'[s] = "ensure_progress"
                    /\ StatusOf(search_sessions', s) = StatusOf(search_sessions, s)
              /\ e.type = "completed" =>
                    /\ pc'[s] = "done"
                    /\ StatusOf(search_sessions', s) = "completed"
              /\ StatusOf(search_sessions', s) = "failed" =>
                    \/ StatusOf(search_sessions, s) = "failed"
                    \/ /\ e.type = "failed"
                       /\ search_sessions'[s]["error"] = e.data.error
      ]_vars

\* a send to the websocket has failed before it received anything: the
\* session has no registration any more and is completed
C15_Witness ==
    \E o \in Observers :
        LET s == ws[o].session_id IN
        /\ ws[o].state = "broken"
        /\ published[s].type = "completed"
        /\ received[o] = NoMessage
        /\ s \notin DOMAIN active_connections
        /\ StatusOf(search_sessions, s) = "completed"

\* the runner of session s reads the reports of a process that exited with 0
ReadsReports(s) == pc[s] = "results" /\ pc'[s] = "done" /\ return_code[s] = 0
\* the step completes session s: one update of the record sets the status,
\* progress 100, the time of completion and the formatted results, and the
\* completed event that is published carries the results of the record
Completes(s) ==
    LET before == search_sessions[s]
        after == search_sessions'[s]
    IN  /\ Get(before, "status", None) = "running"
        /\ "completedAt" \notin DOMAIN before
        /\ before["results"] = <<>>
        /\ Get(after, "status", None) = "completed"
        /\ after = DictUpdate(before,
                      [ results |-> FormatResults(request[s].usernames,
                                       LoadResults(request[s].usernames,
                                                   reports'[s], 1).all_results, 1).results,
                        status |-> "completed",
                        progress |-> 100,
                        completedAt |-> now ])
        /\ published'[s] = [ type |-> "completed",
                             data |-> [ sessionId |-> s, status |-> "completed",
                                        progress |-> 100,
                                        results |-> after["results"] ] ]

EndsWithNumber(text, n) ==
    LET t == Chars(text)
        d == Chars(ToString(n))
    IN  /\ Len(t) >= Len(d)
        /\ SubSeq(t, Len(t) - Len(d) + 1, Len(t)) = d

\* C17: the step that handles a nonzero exit code leaves the session failed
\* with an error message that contains the exit code and without results,
\* and publishes a failed event with the same error.
C17_NonzeroExitFails ==
    [][\A s \in DOMAIN search_sessions :
          (pc[s] = "failed" /\ pc'[s] = "done") =>
              LET after == search_sessions'[s] IN
              /\ return_code[s] # 0
              /\ Get(after, "status", None) = "failed"
              /\ "error" \in DOMAIN after
              /\ EndsWithNumber(after["error"], return_code[s])
              /\ after["results"] = <<>>
              /\ "completedAt" \notin DOMAIN after
              /\ published'[s] = [ type |-> "failed",
                                   data |-> [ sessionId |-> s, status |-> "failed",
                                              error |-> after["error"] ] ]
      ]_vars

\* the process of a session has exited with code 1 after a line of output:
\* the session is failed with the code in its error, and the failed event
\* has been published
C17_Witness ==
    \E s \in DOMAIN search_sessions :
        /\ pc[s] = "done"
        /\ proc[s] = "exited"
        /\ return_code[s] = 1
        /\ output[s] # ""
        /\ StatusOf(search_sessions, s) = "failed"
        /\ search_sessions[s]["error"] = "Maigret search failed with return code: 1"
        /\ published[s].type = "failed"
        /\ published[s].data.error = search_sessions[s]["error"]

\* the cause of the failure of the reports that the runner of s has read:
\* the decoding error of a file, else the error of formatting an item
ReportsFault(s) ==
    IF \E u \in DOMAIN reports[s] : reports[s][u].t = "malformed"
    THEN "Failed to parse results: " \o JSONDecodeError
    ELSE "Failed to process results: " \o AttributeError

\* C18: a session whose runner has read, after exit code 0, reports of which
\* one does not parse or cannot be formatted is failed, its error names that
\* cause, the failed event with this error has been published, and the
\* session has neither results nor a time of completion.
C18_BadArtifactFails ==
    \A s \in DOMAIN search_sessions :
        ( /\ DOMAIN reports[s] # {}
          /\ \E u \in DOMAIN reports[s] : ~Usable(reports[s][u]) )
        => /\ pc[s] = "done" /\ return_code[s] = 0
           /\ StatusOf(search_sessions, s) = "failed"
           /\ search_sessions[s]["error"] = ReportsFault(s)
           /\ search_sessions[s]["results"] = <<>>
           /\ "completedAt" \notin DOMAIN search_sessions[s]
           /\ published[s] = [ type |-> "failed",
                               data |-> [ sessionId |-> s, status |-> "failed",
                                          error |-> ReportsFault(s) ] ]

\* two sessions whose processes exited with code 0 are failed: the report of
\* the one does not parse, the report of the other parses and has an item
\* whose status cannot be normalized
C18_Witness ==
    \E a, b \in DOMAIN search_sessions :
        /\ \E u \in DOMAIN reports[a] : reports[a][u].t = "malformed"
        /\ DOMAIN reports[b] # {}
        /\ \A u \in DOMAIN reports[b] : reports[b][u].t = "file"
        /\ \E u \in DOMAIN reports[b] : ~Usable(reports[b][u])
        /\ StatusOf(search_sessions, a) = "failed"
        /\ StatusOf(search_sessions, b) = "failed"
        /\ search_sessions[a]["error"] = "Failed to parse results: " \o JSONDecodeError
        /\ search_sessions[b]["error"] = "Failed to process results: " \o AttributeError

\* C19: a websocket that is connected to a session that has ended, and that
\* stays connected without a failed send, eventually receives an event of
\* the session.
C19_LateSubscriberGetsSnapshot ==
    \A o \in Observers :
        (ws[o].state = "open" /\ Terminal(search_sessions, ws[o].session_id))
        ~> (received[o] # NoMessage \/ ws[o].state # "open")

\* C20: in every record whose totalSites is known and not zero, sitesChecked
\* is at most totalSites.
C20_CheckedAtMostTotal ==
    \A s \in DOMAIN search_sessions :
        Get(search_sessions[s], "totalSites", 0) > 0
        => Get(search_sessions[s], "sitesChecked", 0)
               <= Get(search_sessions[s], "totalSites", 0)

\* the write of the snapshot file fails in this step
SaveFails == budget'.save_failures < budget.save_failures
\* the fields that get_search_status reports, read from a record
StatusFields(s, record) ==
    [ sessionId |-> s,
      status |-> Get(record, "status", "pending"),
      progress |-> Get(record, "progress", 0),
      currentSite |-> Get(record, "currentSite", None),
      sitesChecked |-> Get(record, "sitesChecked", 0),
      totalSites |-> Get(record, "totalSites", 0),
      resultsFound |-> Get(record, "resultsFound", 0) ]

\* C21: a step whose write of the snapshot file fails leaves the file as it
\* was or truncated, and the records in memory with the fields just written;
\* the runner that wrote goes on to its next position and enters the
\* exception handler only from a call that raised itself, and a creation
\* still answers 200.
\* Every status query answers with the fields of the record in memory.
C21_FailedSaveIsNotFatal ==
    [][/\ SaveFails =>
             /\ sessions_file' \in FailedWrites(sessions_file)
             /\ \A s \in DOMAIN search_sessions' : search_sessions'[s] = last_write'[s]
             /\ \A s \in Sessions :
                    /\ pc'[s] = "except_terminate" => pc[s] \in {"popen", "readline"}
                    /\ (pc[s] = "idle" /\ pc'[s] # "idle") =>
                           /\ response'.code = 200
                           /\ response'.data = search_sessions'[s]
             /\ \E s \in Sessions : pc'[s] # pc[s]
       /\ (response'.op = "get_search_status" /\ response'.code = 200) =>
             response'.data = StatusFields(response'.session_id,
                                           search_sessions[response'.session_id])
      ]_vars

\* the write of the snapshot failed when the session was completed: the file
\* still has it running, and the status query answers completed
C21_Witness ==
    /\ response.op = "get_search_status"
    /\ response.code = 200
    /\ response.data.status = "completed"
    /\ response.session_id \in DOMAIN sessions_file
    /\ StatusOf(sessions_file, response.session_id) = "running"
    /\ StatusOf(search_sessions, response.session_id) = "completed"

\* C22: what load_sessions reads from the snapshot file is the store as of
\* the last write of the file that succeeded: all its records, each with the
\* field values it had in memory at that write.
C22_SnapshotIsLastSavedStore == load_sessions(sessions_file) = last_saved

\* C23: the progress of every record is an integer from 0 to 100.
C23_ProgressIsPercentage ==
    \A s \in DOMAIN search_sessions : ProgressOf(search_sessions, s) \in 0..100

\* C24: once the totalSites of a record is not zero, no step changes it.
C24_TotalSetOnce ==
    [][\A s \in DOMAIN search_sessions :
          Get(search_sessions[s], "totalSites", 0) > 0
          => Get(search_sessions'[s], "totalSites", 0)
                 = Get(search_sessions[s], "totalSites", 0)]_vars

\* the runner of s has counters to compute a percentage from
CounterKnown(s) == total_sites[s] > 0 /\ sites_checked[s] > 0
\* the percentage of the counters, 0 when there are none
CounterBased(s) ==
    IF CounterKnown(s) THEN Min(95, percent(sites_checked[s], total_sites[s])) ELSE 0
\* the estimate from the time since the process was started
TimeBased(s) == Min(90, Max(2, ((now - start_time[s]) * 3) \div (5 * TicksPerSecond)))
\* the step is an update cycle of s that is not skipped
UpdateCycle(s) ==
    /\ pc[s] = "update_progress" /\ pc'[s] = "ensure_progress"
    /\ (now - last_progress_update[s]) * 2 >= TicksPerSecond
\* the cycle writes the percentage p to the record and publishes it
CycleReports(s, p) ==
    /\ search_sessions'[s]["progress"] = p
    /\ published'[s].type = "progress"
    /\ published'[s].data.progress = p

BarStep(s) == pc[s] = "parse_bar" /\ pc'[s] = "parse_site"

\* C26: the rule of the visual bar leaves the record as it is when a counter
\* pattern has matched the line, and when it changes the record the progress
\* it writes is greater than the progress stored before.
C26_BarOnlyWithoutCounter ==
    [][\A s \in DOMAIN search_sessions :
          BarStep(s) =>
              /\ scan[s].progress_match.ok => search_sessions'[s] = search_sessions[s]
              /\ search_sessions'[s] # search_sessions[s] =>
                     ProgressOf(search_sessions', s) > ProgressOf(search_sessions, s)
      ]_vars

\* the runner of s is inside readline and the process has nothing for it
Waiting(s) == pc[s] = "readline" /\ proc[s] \in {"alive", "silent"}
\* the runner of b has a step of its own to take
Ready(b) == pc[b] \notin {"idle", "readline", "done"}

\* C27: while a runner waits in readline, a status query and a results query
\* can be answered, and the runner of every other session that has a step of
\* its own to take can take it.
C27_WaitingRunnerBlocksNobody ==
    \A s \in Sessions :
        Waiting(s) =>
            /\ ENABLED (\E x \in KnownOrNext : get_search_status(x))
            /\ ENABLED (\E x \in KnownOrNext : get_search_results(x))
            /\ \A b \in Sessions \ {s} : Ready(b) => ENABLED Proceeds(b)

\* the endpoint of websocket o ends in this step
Disconnects(o) == ws[o].state \in {"open", "broken"} /\ ws'[o].state = "closed"

\* C28: when the endpoint of a websocket ends while another websocket is
\* registered for its session, that other websocket stays registered.
C28_ReplacedObserverLeavesSuccessor ==
    [][\A o \in Observers : Disconnects(o) =>
          LET s == ws[o].session_id IN
          (s \in DOMAIN active_connections /\ active_connections[s] # o)
          => /\ s \in DOMAIN active_connections'
             /\ active_connections'[s] = active_connections[s]]_vars

\* C29: when the runner of a session has returned and the session is
\* completed or failed, the last event published for the session is the
\* terminal event of that kind.
C29_TerminalEventPublished ==
    \A s \in DOMAIN search_sessions :
        (pc[s] = "done" /\ Terminal(search_sessions, s))
        => published[s].type = StatusOf(search_sessions, s)

\* C30: in the state in which an event of a session is published, the record
\* of the session has the status that the event carries and a progress that
\* is at least the progress that the event carries, and so has the answer of
\* a status query.
C30_StoreWrittenBeforeEvent ==
    [][\A s \in DOMAIN search_sessions :
          published'[s] # published[s] =>
              LET e == published'[s]
                  answer == StatusFields(s, search_sessions'[s])
              IN  /\ answer.status = e.data.status
                  /\ "progress" \in DOMAIN e.data => answer.progress >= e.data.progress
      ]_vars

\* an observer has received the progress event that its session published
\* last, and the record has the status and the progress of the event
C30_Witness ==
    \E o \in Observers :
        /\ ws[o].state = "open"
        /\ received[o].type = "progress"
        /\ received[o] = published[ws[o].session_id]
        /\ received[o].data.progress > 0
        /\ received[o].data.progress = ProgressOf(search_sessions, ws[o].session_id)
        /\ received[o].data.status = StatusOf(search_sessions, ws[o].session_id)

\* the site records that formatting makes of one report
OwnSites(file) == IF file.t = "file" THEN UserSites(<<file.data>>, 1).sites ELSE <<>>

\* C31: in a completed session with several subjects, the sites of the entry
\* of each subject are the site records of the report of that subject, and
\* of no other report.
C31_EntryHoldsOwnSites ==
    \A s \in DOMAIN search_sessions :
        ( /\ StatusOf(search_sessions, s) = "completed"
          /\ Len(request[s].usernames) > 1 )
        => \A k \in 1..Len(request[s].usernames) :
               /\ search_sessions[s]["results"][k].username = request[s].usernames[k]
               /\ search_sessions[s]["results"][k].sites
                      = OwnSites(reports[s][request[s].usernames[k]])

=============================================================================
